---- MODULE Spec2Model ----
(***************************************************************************)
(* Model of ollama_terminal.py: the response interpreter                   *)
(* (parse_ollama_json), the model client (call_ollama) and the session     *)
(* driver (the __main__ loop).                                             *)
(*                                                                         *)
(* Text is a sequence of symbols.  A symbol is one character ("{", "[",    *)
(* a blank, a letter) or one indivisible lexeme: the three backticks of a  *)
(* markdown fence, the word json after them, a key word, the escaped       *)
(* quote of a JSON string.     Python values are tagged records            *)
(* [t |-> type, v |-> payload].                                            *)
(***************************************************************************)
EXTENDS Integers, Sequences, FiniteSets, TLC

VARIABLES
  (* session driver *)
  pc,                \* position of the main loop
  chat_history,      \* the conversation
  error_retry_count, \* the retry counter
  commands,          \* commands of the reply being processed
  question,          \* question of the reply being processed
  error,             \* parser error of the reply being processed
  idx,               \* i of the command loop (0-based)
  command_failed,    \* flag of the command loop
  confirm_input,     \* normalised answer at the confirmation prompt
  user_input,        \* the line last read at the main prompt
  (* observers of the session driver *)
  answers,           \* the lines read at the confirmation prompts of the batch, as typed
  ran,               \* the commands of the current batch that were run: <<position, text>>
  shown,             \* the positions of the current batch that were presented
  auto_queries,      \* automatic re-queries since the turn's first failure
  entry_count,       \* retry counter when the current batch was entered
  last_raw,          \* what call_ollama returned last
  last_reply,        \* the JSON object the last reply was written from
  turns,             \* user requests read so far
  calls,             \* model calls made so far
  event,             \* what the last step of the session did
  (* response interpreter on its own *)
  p_pc, p_obj, p_wrap, p_raw, p_out, p_base,
  (* model client on its own *)
  h_pc, h_resp, h_out

vars == << pc, chat_history, error_retry_count, commands, question, error, idx,
           command_failed, confirm_input, answers, ran, shown, auto_queries,
           entry_count, last_raw, last_reply, turns, calls, user_input, event,
           p_pc, p_obj, p_wrap, p_raw, p_out, p_base, h_pc, h_resp, h_out >>

sessionVars == << pc, chat_history, error_retry_count, commands, question, error,
                  idx, command_failed, confirm_input, answers, ran, shown,
                  auto_queries, entry_count, last_raw, last_reply, turns, calls,
                  user_input, event >>
parseVars == << p_pc, p_obj, p_wrap, p_raw, p_out, p_base >>
callVars == << h_pc, h_resp, h_out >>

----------------------------------------------------------------------------
(* Python values *)

PyNone == [t |-> "none", v |-> 0]
PyStr(s) == [t |-> "str", v |-> s]
PyNum(n) == [t |-> "num", v |-> n]
PyList(l) == [t |-> "list", v |-> l]
PyDict(pairs) == [t |-> "obj", v |-> pairs]   \* pairs: <<key, value>> in insertion order

(* bool(x) of Python is False for None, 0, "", [] and {} *)
Falsy(x) ==
  \/ x.t = "none"
  \/ x.t = "num" /\ x.v = 0
  \/ x.t \in {"str", "list", "obj"} /\ Len(x.v) = 0

(* symbols *)
Q == "dquote"     \* the double quote
EQ == "esc_dquote" \* the escaped double quote inside a JSON string
FENCE == "fence"   \* the three backticks of a markdown fence
WS == " "
NumSyms == {"0", "1"}
NumVal(c) == IF c = "0" THEN 0 ELSE 1
NumSym(n) == IF n = 0 THEN "0" ELSE "1"

----------------------------------------------------------------------------
(* str.strip() *)

RECURSIVE SkipWs(_, _)
SkipWs(s, i) == IF i <= Len(s) /\ s[i] = WS THEN SkipWs(s, i + 1) ELSE i

RECURSIVE LastNonWs(_, _)
LastNonWs(s, j) == IF j >= 1 /\ s[j] = WS THEN LastNonWs(s, j - 1) ELSE j

strip(s) == SubSeq(s, SkipWs(s, 1), LastNonWs(s, Len(s)))

----------------------------------------------------------------------------
(* json.loads: a recursive-descent parser over the symbols.                *)
(* A parse yields [ok, v, n]: success, the value, the next position.       *)

Fail == [ok |-> FALSE, v |-> PyNone, n |-> 0]
Ok(val, next) == [ok |-> TRUE, v |-> val, n |-> next]

RECURSIVE ScanString(_, _)
ScanString(s, j) ==
  IF j > Len(s) THEN 0 ELSE IF s[j] = Q THEN j ELSE ScanString(s, j + 1)

Unescape(c) == IF c = EQ THEN Q ELSE c

RECURSIVE UnescapeAll(_)
UnescapeAll(s) == IF Len(s) = 0 THEN <<>> ELSE <<Unescape(Head(s))>> \o UnescapeAll(Tail(s))

(* s[i] is the opening quote *)
ParseString(s, i) ==
  LET j == ScanString(s, i + 1)
  IN IF j = 0 THEN Fail
     ELSE Ok(PyStr(UnescapeAll(SubSeq(s, i + 1, j - 1))), j + 1)

(* dict[k] = v: a repeated key keeps its place and takes the last value *)
RECURSIVE DictSet(_, _, _)
DictSet(pairs, k, val) ==
  IF Len(pairs) = 0 THEN << <<k, val>> >>
  ELSE IF Head(pairs)[1] = k THEN << <<k, val>> >> \o Tail(pairs)
  ELSE <<Head(pairs)>> \o DictSet(Tail(pairs), k, val)

RECURSIVE ParseValue(_, _), ParseElems(_, _, _), ParseMembers(_, _, _)
ParseValue(s, i0) ==
  LET i == SkipWs(s, i0)
  IN IF i > Len(s) THEN Fail
     ELSE IF s[i] = Q THEN ParseString(s, i)
     ELSE IF s[i] \in NumSyms THEN Ok(PyNum(NumVal(s[i])), i + 1)
     ELSE IF s[i] = "null" THEN Ok(PyNone, i + 1)
     ELSE IF s[i] = "[" THEN
       LET j == SkipWs(s, i + 1)
       IN IF j <= Len(s) /\ s[j] = "]" THEN Ok(PyList(<<>>), j + 1)
          ELSE ParseElems(s, i + 1, <<>>)
     ELSE IF s[i] = "{" THEN
       LET j == SkipWs(s, i + 1)
       IN IF j <= Len(s) /\ s[j] = "}" THEN Ok(PyDict(<<>>), j + 1)
          ELSE ParseMembers(s, i + 1, <<>>)
     ELSE Fail

ParseElems(s, i, acc) ==
  LET r == ParseValue(s, i)
  IN IF ~r.ok THEN Fail
     ELSE LET j == SkipWs(s, r.n)
          IN IF j > Len(s) THEN Fail
             ELSE IF s[j] = "," THEN ParseElems(s, j + 1, Append(acc, r.v))
             ELSE IF s[j] = "]" THEN Ok(PyList(Append(acc, r.v)), j + 1)
             ELSE Fail

ParseMembers(s, i0, acc) ==
  LET i == SkipWs(s, i0)
  IN IF i > Len(s) \/ s[i] # Q THEN Fail
     ELSE LET k == ParseString(s, i)
          IN IF ~k.ok THEN Fail
             ELSE LET c == SkipWs(s, k.n)
                  IN IF c > Len(s) \/ s[c] # ":" THEN Fail
                     ELSE LET r == ParseValue(s, c + 1)
                          IN IF ~r.ok THEN Fail
                             ELSE LET j == SkipWs(s, r.n)
                                  IN IF j > Len(s) THEN Fail
                                     ELSE IF s[j] = "," THEN
                                       ParseMembers(s, j + 1, DictSet(acc, k.v.v, r.v))
                                     ELSE IF s[j] = "}" THEN
                                       Ok(PyDict(DictSet(acc, k.v.v, r.v)), j + 1)
                                     ELSE Fail

(* json.loads(s): [ok |-> FALSE] stands for json.JSONDecodeError *)
loads(s) ==
  LET r == ParseValue(s, 1)
  IN IF r.ok /\ SkipWs(s, r.n) > Len(s) THEN r ELSE Fail

----------------------------------------------------------------------------
(* json.dumps with its default separators ", " and ": " *)

Escape(c) == IF c = Q THEN EQ ELSE c

RECURSIVE EscapeAll(_)
EscapeAll(s) == IF Len(s) = 0 THEN <<>> ELSE <<Escape(Head(s))>> \o EscapeAll(Tail(s))

RECURSIVE dumps(_), dumpsItems(_), dumpsPairs(_)
dumps(x) ==
  CASE x.t = "none" -> <<"null">>
    [] x.t = "num" -> <<NumSym(x.v)>>
    [] x.t = "str" -> <<Q>> \o EscapeAll(x.v) \o <<Q>>
    [] x.t = "list" -> <<"[">> \o dumpsItems(x.v) \o <<"]">>
    [] x.t = "obj" -> <<"{">> \o dumpsPairs(x.v) \o <<"}">>

dumpsItems(l) ==
  IF Len(l) = 0 THEN <<>>
  ELSE IF Len(l) = 1 THEN dumps(l[1])
  ELSE dumps(l[1]) \o <<",", WS>> \o dumpsItems(Tail(l))

dumpsPairs(l) ==
  IF Len(l) = 0 THEN <<>>
  ELSE LET one == <<Q>> \o EscapeAll(l[1][1]) \o <<Q, ":", WS>> \o dumps(l[1][2])
       IN IF Len(l) = 1 THEN one ELSE one \o <<",", WS>> \o dumpsPairs(Tail(l))

----------------------------------------------------------------------------
(* The response interpreter *)

Min(S) == CHOOSE x \in S : \A y \in S : x <= y
Max(S) == CHOOSE x \in S : \A y \in S : x >= y

(* the closing part of the pattern after the group: \s* and a fence *)
ClosesAt(s, e) == LET q == SkipWs(s, e + 1) IN q <= Len(s) /\ s[q] = FENCE

(* the ends the group \{[\s\S]*?\} can take when it starts at p *)
GroupEnds(s, p) == {e \in (p + 1)..Len(s) : s[e] = "}" /\ ClosesAt(s, e)}

(* the positions where the pattern matches: a fence, json, \s*, the group *)
MatchStarts(s) ==
  {i \in 1..(Len(s) - 1) :
     /\ s[i] = FENCE
     /\ s[i + 1] = "json"
     /\ LET p == SkipWs(s, i + 2)
        IN p <= Len(s) /\ s[p] = "{" /\ GroupEnds(s, p) # {}}

(* re.search of the fenced-block pattern: the leftmost match, its group the
   shortest one (the quantifier is lazy) *)
re_search(s) ==
  IF MatchStarts(s) = {} THEN [found |-> FALSE, group |-> <<>>]
  ELSE LET p == SkipWs(s, Min(MatchStarts(s)) + 2)
       IN [found |-> TRUE, group |-> SubSeq(s, p, Min(GroupEnds(s, p)))]

(* str.find and str.rfind, 1-based, 0 for Python's -1 *)
find(s, c) ==
  IF \E i \in 1..Len(s) : s[i] = c THEN Min({i \in 1..Len(s) : s[i] = c}) ELSE 0
rfind(s, c) ==
  IF \E i \in 1..Len(s) : s[i] = c THEN Max({i \in 1..Len(s) : s[i] = c}) ELSE 0

(* the text json.loads is given *)
ExtractJson(raw) ==
  LET json_str == strip(raw)
      match == re_search(json_str)
      brace_start == find(json_str, "{")
      brace_end == rfind(json_str, "}")
  IN IF match.found THEN strip(match.group)
     ELSE IF brace_start # 0 /\ brace_end # 0 /\ brace_end > brace_start
          THEN SubSeq(json_str, brace_start, brace_end)
     ELSE json_str

(* dict.get(key, default) *)
RECURSIVE DictGet(_, _, _)
DictGet(pairs, k, default) ==
  IF Len(pairs) = 0 THEN default
  ELSE IF Head(pairs)[1] = k THEN Head(pairs)[2]
  ELSE DictGet(Tail(pairs), k, default)

DictHas(pairs, k) == \E i \in 1..Len(pairs) : pairs[i][1] = k

TypeName(x) ==
  CASE x.t = "none" -> "NoneType"
    [] x.t = "num" -> "int"
    [] x.t = "str" -> "str"
    [] x.t = "list" -> "list"
    [] x.t = "obj" -> "dict"

IdxSym(i) == IF i = 0 THEN "0" ELSE IF i = 1 THEN "1" ELSE IF i = 2 THEN "2"
             ELSE IF i = 3 THEN "3" ELSE IF i = 4 THEN "4" ELSE "5+"

(* the five values parse_ollama_json returns, or the exception it lets out *)
Result(c, r, e, q, err) ==
  [exc |-> "none", commands |-> c, reason |-> r, explanation |-> e,
   question |-> q, error |-> err]
Raised(x) ==
  [exc |-> x, commands |-> PyNone, reason |-> PyNone, explanation |-> PyNone,
   question |-> PyNone, error |-> PyNone]

ErrEmpty == PyStr(<<"Ollama returned an empty response.">>)
ErrMissing == PyStr(<<"JSON received, but 'commands' key is missing or null.">>)
ErrNotList(x) == PyStr(<<"JSON 'commands' value is not a list (got", TypeName(x), ")">>)
ErrItem(i, x) ==
  PyStr(<<"Item", IdxSym(i), "in 'commands' list is not a string (got", TypeName(x), ")">>)
ErrDecode(raw) == PyStr(<<"Failed to decode JSON response", "Raw text was:">> \o raw)
ErrUnexpected == PyStr(<<"An unexpected error occurred during JSON parsing">>)

(* the positions of the elements of a list that are not strings *)
NonStrings(l) == {i \in 1..Len(l) : l[i].t # "str"}

(* a commands value that is no list is taken for an empty list *)
ValidateCommandsLenient(data) ==
  LET cmds == DictGet(data, <<"commands">>, PyNone)
      reason == DictGet(data, <<"reason">>, PyStr(<<>>))
      explanation == DictGet(data, <<"explanation">>, PyStr(<<>>))
      quest == DictGet(data, <<"question">>, PyStr(<<>>))
  IN IF cmds.t # "list" THEN Result(PyList(<<>>), reason, explanation, quest, PyNone)
     ELSE IF NonStrings(cmds.v) # {}
          THEN LET i == Min(NonStrings(cmds.v))
               IN Result(PyNone, reason, explanation, quest, ErrItem(i - 1, cmds.v[i]))
     ELSE Result(cmds, reason, explanation, quest, PyNone)

ValidateCommands(data) ==
  LET cmds == DictGet(data, <<"commands">>, PyNone)
      reason == DictGet(data, <<"reason">>, PyStr(<<>>))
      explanation == DictGet(data, <<"explanation">>, PyStr(<<>>))
      quest == DictGet(data, <<"question">>, PyStr(<<>>))
  IN IF cmds.t = "none" THEN Result(PyNone, reason, explanation, quest, ErrMissing)
     ELSE IF cmds.t # "list"
          THEN Result(PyNone, reason, explanation, quest, ErrNotList(cmds))
     ELSE IF NonStrings(cmds.v) # {}
          THEN LET i == Min(NonStrings(cmds.v))
               IN Result(PyNone, reason, explanation, quest, ErrItem(i - 1, cmds.v[i]))
     ELSE Result(cmds, reason, explanation, quest, PyNone)

parse_ollama_json(raw_response) ==
  IF Falsy(raw_response) THEN Result(PyNone, PyNone, PyNone, PyNone, ErrEmpty)
  ELSE IF raw_response.t # "str" THEN Raised("AttributeError")
  ELSE LET data == loads(ExtractJson(raw_response.v))
       IN IF ~data.ok
          THEN Result(PyNone, PyNone, PyNone, PyNone, ErrDecode(raw_response.v))
          ELSE IF data.v.t # "obj"
          THEN Result(PyNone, PyNone, PyNone, PyNone, ErrUnexpected)
          ELSE ValidateCommands(data.v.v)

----------------------------------------------------------------------------
(* Replies of the model: JSON objects, serialised and wrapped *)

MaxCmds == 3   \* longest commands list of a reply

RECURSIVE SeqsUpTo(_, _)
SeqsUpTo(S, n) ==
  IF n = 0 THEN {<<>>}
  ELSE LET shorter == SeqsUpTo(S, n - 1)
       IN shorter \cup {Append(q, x) : q \in {r \in shorter : Len(r) = n - 1}, x \in S}

(* a markdown code block, as in: printf of a fenced json block into a file *)
MdBlock == <<"a", WS, FENCE, "json", WS, "{", "}", WS, FENCE>>
(* a fenced JSON document quoted inside a string *)
QuotedReply == <<FENCE, "json", WS, "{", Q, "commands", Q, ":", "[", Q, "a", Q, "]", "}", WS, FENCE>>

CmdTexts == {<<"a">>, <<"b">>, MdBlock}
Elements == {PyStr(c) : c \in CmdTexts} \cup {PyNum(1), PyNone}
CommandLists == {PyList(l) : l \in SeqsUpTo(Elements, MaxCmds)}

(* the commands member of a reply: absent, or one of these values *)
NonListValues == {PyNone, PyNum(0), PyNum(1), PyStr(<<"a">>), PyDict(<<>>)}
CommandsMembers ==
  {<<>>} \cup {<< <<(<<"commands">>), x>> >> : x \in CommandLists \cup NonListValues}

(* the other members of a reply *)
OtherMembers ==
  { <<>>,
    << <<(<<"reason">>), PyStr(<<"a">>)>> >>,
    << <<(<<"explanation">>), PyStr(MdBlock)>> >>,
    << <<(<<"explanation">>), PyStr(QuotedReply)>> >>,
    << <<(<<"question">>), PyStr(<<"b">>)>> >>,
    << <<(<<"question">>), PyNone>> >>,
    << <<(<<"x">>), PyDict(<<>>)>> >> }

ReplyObjects == {PyDict(c \o o) : c \in CommandsMembers, o \in OtherMembers}

Wrappers == {"bare", "padded", "fenced", "fenced_tight", "fenced_prose", "prose"}
FencedWrappers == {"fenced", "fenced_tight", "fenced_prose"}

Wrap(w, text) ==
  CASE w = "bare" -> text
    [] w = "padded" -> <<WS>> \o text \o <<WS>>
    [] w = "fenced" -> <<FENCE, "json", WS>> \o text \o <<WS, FENCE>>
    [] w = "fenced_tight" -> <<FENCE, "json">> \o text \o <<FENCE>>
    [] w = "fenced_prose" -> <<"a", WS, FENCE, "json", WS>> \o text \o <<WS, FENCE, WS, "b">>
    [] w = "prose" -> <<"a", WS>> \o text \o <<WS, "b">>

(* replies that are no JSON object, and values that are no text *)
OtherReplies ==
  { PyStr(<<>>), PyStr(<<WS>>), PyStr(<<"a", WS, "b">>), PyStr(<<"1">>),
    PyStr(<<"[", "1", "]">>), PyStr(<<"{", Q, "commands", Q, ":">>),
    PyStr(<<"{", Q, "commands", Q, ":", "[", "]", "}", WS, "a", "}">>),
    PyNum(0), PyNum(1), PyList(<<>>), PyList(<<PyStr(<<"a">>)>>), PyDict(<<>>),
    PyDict(<< <<(<<"commands">>), PyList(<<>>)>> >>) }

Pending == Raised("pending")

----------------------------------------------------------------------------
(* The response interpreter applied to every reply of the bounded family *)

SessionIdle ==
  /\ pc = "idle"
  /\ chat_history = <<>>
  /\ error_retry_count = 0
  /\ commands = PyNone
  /\ question = PyNone
  /\ error = PyNone
  /\ idx = 0
  /\ command_failed = FALSE
  /\ confirm_input = <<>>
  /\ answers = <<>>
  /\ ran = <<>>
  /\ shown = <<>>
  /\ auto_queries = 0
  /\ entry_count = 0
  /\ last_raw = PyNone
  /\ last_reply = PyNone
  /\ turns = 0
  /\ calls = 0
  /\ user_input = <<>>
  /\ event = "start"

ParseIdle ==
  /\ p_pc = "idle"
  /\ p_obj = PyNone
  /\ p_wrap = "raw"
  /\ p_raw = PyNone
  /\ p_out = Pending
  /\ p_base = Pending

CallIdle ==
  /\ h_pc = "idle"
  /\ h_resp = PyNone
  /\ h_out = PyNone

ParseInit ==
  /\ SessionIdle
  /\ CallIdle
  /\ p_pc = "input"
  /\ p_out = Pending
  /\ p_base = Pending
  /\ \/ /\ p_obj \in ReplyObjects
        /\ p_wrap \in Wrappers
        /\ p_raw = PyStr(Wrap(p_wrap, dumps(p_obj)))
     \/ /\ p_obj = PyNone
        /\ p_wrap = "raw"
        /\ p_raw \in OtherReplies

(* commands, reason, explanation, question, error = parse_ollama_json(raw) *)
ParseReply ==
  /\ p_pc = "input"
  /\ p_out' = parse_ollama_json(p_raw)
  /\ p_pc' = "parsed"
  /\ UNCHANGED << p_obj, p_wrap, p_raw, p_base >>
  /\ UNCHANGED sessionVars
  /\ UNCHANGED callVars

(* the same JSON object, given to parse_ollama_json without its wrapping *)
ParseUnwrapped ==
  /\ p_pc = "parsed"
  /\ p_obj.t = "obj"
  /\ p_base' = parse_ollama_json(PyStr(dumps(p_obj)))
  /\ p_pc' = "compared"
  /\ UNCHANGED << p_obj, p_wrap, p_raw, p_out >>
  /\ UNCHANGED sessionVars
  /\ UNCHANGED callVars

ParseNext == ParseReply \/ ParseUnwrapped

ParseSpec == ParseInit /\ [][ParseNext]_vars

----------------------------------------------------------------------------
(* The model client *)

(* what a call yields: a returned value, or an exception it lets out *)
Return(x) == [kind |-> "return", value |-> x, exc |-> "none"]
Raise(x) == [kind |-> "raise", value |-> PyNone, exc |-> x]

(* Python's  needle in x  for a string needle: "yes", "no" or "TypeError" *)
PyIn(needle, x) ==
  CASE x.t = "obj" -> IF DictHas(x.v, <<needle>>) THEN "yes" ELSE "no"
    [] x.t = "list" ->
         IF \E i \in 1..Len(x.v) : x.v[i] = PyStr(<<needle>>) THEN "yes" ELSE "no"
    [] x.t = "str" -> IF \E i \in 1..Len(x.v) : x.v[i] = needle THEN "yes" ELSE "no"
    [] OTHER -> "TypeError"

(* the branches after the first test of the if statement failed *)
FallbackBody(data) ==
  IF data.t = "obj" /\ DictHas(data.v, <<"commands">>)
  THEN Return(PyStr(dumps(data)))
  ELSE Return(PyNone)

(* the if statement on the decoded body *)
ReadEnvelope(data) ==
  LET hasMessage == PyIn("message", data)
  IN IF hasMessage = "TypeError" THEN Raise("TypeError")
     ELSE IF hasMessage = "no" THEN FallbackBody(data)
     ELSE IF data.t # "obj" THEN Raise("TypeError")       \* data["message"]
     ELSE LET message == DictGet(data.v, <<"message">>, PyNone)
              hasContent == PyIn("content", message)
          IN IF hasContent = "TypeError" THEN Raise("TypeError")
             ELSE IF hasContent = "no" THEN FallbackBody(data)
             ELSE IF message.t # "obj" THEN Raise("TypeError")   \* message["content"]
             ELSE Return(DictGet(message.v, <<"content">>, PyNone))

(* A response of the endpoint: no response at all (connection refused, timeout),
   a non-2xx status, a body that is no JSON, or a decoded JSON body.
   requests raises a RequestException for each of the first four. *)
FailureKinds == {"connection_error", "timeout", "http_error", "bad_body"}
Failure(k) == [kind |-> k, data |-> PyNone]
Body(data) == [kind |-> "json", data |-> data]

call_ollama(response) ==
  IF response.kind \in FailureKinds THEN Return(PyNone)
  ELSE ReadEnvelope(response.data)

(* the envelope the endpoint documents *)
Envelope(content) ==
  Body(PyDict(<< <<(<<"message">>), PyDict(<< <<(<<"content">>), content>> >>)>> >>))

Contents ==
  { PyNone, PyNum(0), PyNum(1), PyList(<<>>), PyStr(<<>>), PyStr(<<"a", WS, "b">>),
    PyStr(dumps(PyDict(<< <<(<<"commands">>), PyList(<<PyStr(<<"a">>)>>)>> >>))),
    PyStr(dumps(PyDict(<< <<(<<"commands">>), PyList(<<>>)>> >>))) }

MessageMembers ==
  {<<>>} \cup
  {<< <<(<<"message">>), x>> >> :
     x \in {PyNone, PyNum(1), PyStr(<<"a">>), PyStr(<<"content">>), PyList(<<>>),
            PyList(<<PyStr(<<"content">>)>>), PyDict(<<>>)}
           \cup {PyDict(<< <<(<<"content">>), c>> >>) : c \in Contents}}

BodyTails ==
  { <<>>,
    << <<(<<"commands">>), PyList(<<PyStr(<<"a">>)>>)>> >>,
    << <<(<<"done">>), PyNum(1)>> >>,
    << <<(<<"error">>), PyStr(<<"a">>)>> >> }

Bodies ==
  {PyDict(m \o t) : m \in MessageMembers, t \in BodyTails}
  \cup {PyNone, PyNum(0), PyNum(1), PyStr(<<"a">>), PyStr(<<"message">>), PyList(<<>>),
        PyList(<<PyStr(<<"message">>)>>), PyList(<<PyNum(1)>>)}

Responses == {Failure(k) : k \in FailureKinds} \cup {Body(d) : d \in Bodies}

CallInit ==
  /\ SessionIdle
  /\ ParseIdle
  /\ h_pc = "request"
  /\ h_resp \in Responses
  /\ h_out = PyNone

(* raw_ollama_response = call_ollama(chat_history) *)
CallOllama ==
  /\ h_pc = "request"
  /\ LET r == call_ollama(h_resp)
     IN /\ h_out' = r.value
        /\ h_pc' = IF r.kind = "raise" THEN "raised" ELSE "returned"
  /\ UNCHANGED h_resp
  /\ UNCHANGED sessionVars
  /\ UNCHANGED parseVars

CallNext == CallOllama

CallSpec == CallInit /\ [][CallNext]_vars

----------------------------------------------------------------------------
(* The session driver *)

MAX_ERROR_RETRY == 2

MaxTurns == 2   \* user requests read in one run
MaxCalls == 4   \* model calls made in one run

Msg(role, content) == [role |-> role, content |-> content]

(* create_system_prompt(current_os_info) *)
SystemPrompt == PyStr(<<"system prompt">>)

(* str.lower() *)
Lower(c) ==
  CASE c = "N" -> "n"
    [] c = "Y" -> "y"
    [] c = "Exit" -> "exit"
    [] c = "QUIT" -> "quit"
    [] OTHER -> c

RECURSIVE LowerAll(_)
LowerAll(s) == IF Len(s) = 0 THEN <<>> ELSE <<Lower(Head(s))>> \o LowerAll(Tail(s))

(* input() raising EOFError *)
EOF == <<"EOFError">>

(* lines typed at the main prompt *)
UserInputs == {<<>>, <<"a">>, <<"exit">>, <<"QUIT">>}

(* lines typed at the confirmation prompt *)
Answers == {<<>>, <<WS>>, <<"Y">>}

(* what run_command returns: the exit code of the command (1 when the shell
   could not be started) *)
ReturnCodes == {0, 1}

(* x or "" *)
OrEmpty(x) == IF Falsy(x) THEN PyStr(<<>>) ELSE x

(* input(...).lower().strip() *)
NormalizeAnswer(line) == strip(LowerAll(line))

(* a prompt that also takes y for yes *)
ExecuteOnEnterOrYes(ci) == ci \in {<<>>, <<"y">>}

(* if confirm_input == "" *)
ExecuteOnEnter(ci) == ci = <<>>

NoCommandFeedback ==
  PyStr(<<"Assistant indicated no commands should be run for the last request.">>)

(* the position written 0-based *)
SkipFeedbackZeroBased(step_num, num_commands, command) ==
  PyStr(<<"User skipped command", IdxSym(step_num - 1), "/", IdxSym(num_commands), ":">>
        \o command.v)

SkipFeedback(step_num, num_commands, command) ==
  PyStr(<<"User skipped command", IdxSym(step_num), "/", IdxSym(num_commands), ":">>
        \o command.v)

(* the exit code is left out of the feedback *)
ExecResultNoCode(step_num, num_commands, command, returncode) ==
  PyStr(<<"User confirmed and executed command", IdxSym(step_num), "/",
          IdxSym(num_commands), ":">> \o command.v \o <<"STDOUT:", "STDERR:">>)

(* exec_result.strip(); the captured output is left out of the text *)
ExecResult(step_num, num_commands, command, returncode) ==
  PyStr(<<"User confirmed and executed command", IdxSym(step_num), "/",
          IdxSym(num_commands), ":">> \o command.v
        \o <<"Exit Code:", IdxSym(returncode), "STDOUT:", "STDERR:">>)

(* the cap is reached one failure early *)
AfterFailureEarly(count) == IF count + 1 >= MAX_ERROR_RETRY THEN 0 ELSE count + 1

(* the cap is not applied *)
AfterFailureNoCap(count) == count + 1

(* error_retry_count after a failed command *)
AfterFailure(count) == IF count + 1 > MAX_ERROR_RETRY THEN 0 ELSE count + 1

(* the statement after the command loop *)
AfterLoop(failed, count) == IF ~failed THEN 0 ELSE count

(* a reply that did not parse is dropped *)
RecordUnparsedDropped(history, raw) == history

(* the history after a reply that did not parse *)
RecordUnparsed(history, raw) == Append(history, Msg("assistant", OrEmpty(raw)))

(* the history after a reply that parsed *)
RecordParsed(history, raw) == Append(history, Msg("assistant", raw))

(* a line typed with other letter cases is no exit word *)
IsExitCaseSensitive(line) == line \in {<<"exit">>, <<"quit">>}

(* user_input.lower() in ["exit", "quit"] *)
IsExit(line) == LowerAll(line) \in {<<"exit">>, <<"quit">>}

(* the pending message is taken back after a failed call *)
HistoryAfterFailedCallPopped(history) == SubSeq(history, 1, Len(history) - 1)

(* the history after call_ollama returned None: nothing is popped *)
HistoryAfterFailedCall(history) == history

(* the counter is kept after a failed call *)
CountAfterFailedCallKept(count) == count

(* error_retry_count after call_ollama returned None *)
CountAfterFailedCall(count) == 0

(* the question is not looked at *)
AsksQuestionNever(q) == FALSE

(* if question *)
AsksQuestion(q) == ~Falsy(q)

(* the counter is kept when the model asks a question *)
CountAfterQuestionKept(count) == count

(* error_retry_count after a reply with a question *)
CountAfterQuestion(count) == 0

(* no feedback for an empty commands list *)
RecordNoCommandsSilent(history) == history

(* the history after a parsed reply with an empty commands list *)
RecordNoCommands(history) == Append(history, Msg("user", NoCommandFeedback))

(* what the endpoint answers in a session, with the JSON object the answer was
   written from (PyNone when it was written from none) *)
Reply(w, obj) == [response |-> Envelope(PyStr(Wrap(w, dumps(obj)))), obj |-> obj]
Cmds(l) == << <<(<<"commands">>), PyList(l)>> >>

SessionReplies ==
  { Reply("fenced", PyDict(Cmds(<<PyStr(<<"a">>), PyStr(<<"b">>)>>))),
    Reply("bare", PyDict(Cmds(<<PyStr(<<"a">>)>>) \o << <<(<<"question">>), PyStr(<<"b">>)>> >>)),
    Reply("bare", PyDict(Cmds(<<>>))),
    Reply("bare", PyDict(<<>>)),
    Reply("bare", PyDict(<< <<(<<"commands">>), PyNone>> >>)),
    Reply("bare", PyDict(<< <<(<<"commands">>), PyNum(1)>> >>)),
    Reply("bare", PyDict(<< <<(<<"commands">>), PyStr(<<"a">>)>> >>)),
    Reply("bare", PyDict(<< <<(<<"commands">>), PyDict(<<>>)>> >>)),
    [response |-> Envelope(PyStr(<<"a", WS, "b">>)), obj |-> PyNone],
    [response |-> Envelope(PyStr(<<>>)), obj |-> PyNone],
    [response |-> Envelope(PyNum(1)), obj |-> PyNone],
    [response |-> Body(PyDict(Cmds(<<>>))), obj |-> PyDict(Cmds(<<>>))],
    [response |-> Body(PyNone), obj |-> PyNone],
    [response |-> Failure("connection_error"), obj |-> PyNone],
    [response |-> Failure("http_error"), obj |-> PyNone] }

Init ==
  /\ ParseIdle
  /\ CallIdle
  /\ pc = "head"
  /\ chat_history = <<Msg("system", SystemPrompt)>>
  /\ error_retry_count = 0
  /\ commands = PyNone
  /\ question = PyNone
  /\ error = PyNone
  /\ idx = 0
  /\ command_failed = FALSE
  /\ confirm_input = <<>>
  /\ answers = <<>>
  /\ ran = <<>>
  /\ shown = <<>>
  /\ auto_queries = 0
  /\ entry_count = 0
  /\ last_raw = PyNone
  /\ last_reply = PyNone
  /\ turns = 0
  /\ calls = 0
  /\ user_input = <<>>
  /\ event = "start"

(* the loop head when the counter is 0: read a line at the main prompt *)
ReadUserInput ==
  /\ pc = "head"
  /\ error_retry_count = 0
  /\ turns < MaxTurns
  /\ \E line \in UserInputs \cup {EOF} :
       IF line = EOF
       THEN /\ pc' = "done"
            /\ event' = "eof"
            /\ UNCHANGED << chat_history, turns, auto_queries, user_input >>
       ELSE /\ user_input' = line
            /\ event' = "input"
            /\ IF Len(line) = 0
               THEN UNCHANGED << pc, chat_history, turns, auto_queries >>
               ELSE IF IsExit(line)
               THEN /\ pc' = "done"
                    /\ UNCHANGED << chat_history, turns, auto_queries >>
               ELSE /\ chat_history' = Append(chat_history, Msg("user", PyStr(line)))
                    /\ pc' = "call"
                    /\ turns' = turns + 1
                    /\ auto_queries' = 0
  /\ UNCHANGED << error_retry_count, commands, question, error, idx, command_failed,
                  confirm_input, answers, ran, shown, entry_count, last_raw,
                  last_reply, calls >>
  /\ UNCHANGED parseVars
  /\ UNCHANGED callVars

(* the loop head when the counter is not 0: go on to the model call *)
ErrorRecovery ==
  /\ pc = "head"
  /\ error_retry_count # 0
  /\ pc' = "call"
  /\ auto_queries' = auto_queries + 1
  /\ event' = "requery"
  /\ UNCHANGED << chat_history, error_retry_count, commands, question, error, idx,
                  command_failed, confirm_input, answers, ran, shown, entry_count,
                  last_raw, last_reply, turns, calls, user_input >>
  /\ UNCHANGED parseVars
  /\ UNCHANGED callVars

(* the session after the reply raw was parsed into p *)
HandleParsed(raw, p) ==
  /\ commands' = p.commands
  /\ question' = p.question
  /\ error' = p.error
  /\ IF p.commands.t = "none"
     THEN /\ chat_history' = RecordUnparsed(chat_history, raw)
          /\ error_retry_count' = 0
          /\ pc' = "head"
          /\ UNCHANGED << idx, command_failed >>
     ELSE IF AsksQuestion(p.question)
     THEN /\ chat_history' = RecordParsed(chat_history, raw)
          /\ error_retry_count' = CountAfterQuestion(error_retry_count)
          /\ pc' = "head"
          /\ UNCHANGED << idx, command_failed >>
     ELSE IF Len(p.commands.v) = 0
     THEN /\ chat_history' = RecordNoCommands(RecordParsed(chat_history, raw))
          /\ error_retry_count' = 0
          /\ pc' = "head"
          /\ UNCHANGED << idx, command_failed >>
     ELSE /\ chat_history' = RecordParsed(chat_history, raw)
          /\ pc' = "confirm"
          /\ idx' = 0
          /\ command_failed' = FALSE
          /\ UNCHANGED error_retry_count

(* steps 2 to 4 of the loop body: call the model, parse the reply, and go on to
   the first confirmation prompt or back to the loop head *)
ModelCall ==
  /\ pc = "call"
  /\ calls < MaxCalls
  /\ calls' = calls + 1
  /\ \E src \in SessionReplies :
       LET r == call_ollama(src.response)
       IN /\ last_reply' = src.obj
          /\ last_raw' = r.value
          /\ IF r.kind = "raise"
             THEN /\ pc' = "crashed"
                  /\ UNCHANGED << chat_history, error_retry_count, commands, question,
                                  error, idx, command_failed >>
             ELSE IF r.value.t = "none"
             THEN /\ error_retry_count' = CountAfterFailedCall(error_retry_count)
                  /\ chat_history' = HistoryAfterFailedCall(chat_history)
                  /\ pc' = "head"
                  /\ UNCHANGED << commands, question, error, idx, command_failed >>
             ELSE LET p == parse_ollama_json(r.value)
                  IN IF p.exc # "none"
                     THEN /\ pc' = "crashed"
                          /\ UNCHANGED << chat_history, error_retry_count, commands,
                                          question, error, idx, command_failed >>
                     ELSE HandleParsed(r.value, p)
  /\ answers' = <<>>
  /\ ran' = <<>>
  /\ shown' = IF pc' = "confirm" THEN <<0>> ELSE <<>>
  /\ entry_count' = error_retry_count
  /\ event' = "call"
  /\ UNCHANGED << confirm_input, auto_queries, turns, user_input >>
  /\ UNCHANGED parseVars
  /\ UNCHANGED callVars

(* the command loop left after the first command that was skipped or succeeded *)
AdvanceStop(count) ==
  /\ pc' = "head"
  /\ error_retry_count' = AfterLoop(command_failed, count)
  /\ UNCHANGED << idx, shown >>

(* the command loop after command idx was skipped or succeeded, the counter
   being count: on to the next command and its prompt, or out of the loop *)
Advance(count) ==
  IF idx + 1 < Len(commands.v)
  THEN /\ idx' = idx + 1
       /\ shown' = Append(shown, idx + 1)
       /\ pc' = "confirm"
       /\ error_retry_count' = count
  ELSE /\ pc' = "head"
       /\ error_retry_count' = AfterLoop(command_failed, count)
       /\ UNCHANGED << idx, shown >>

(* end of input at the confirmation prompt is taken for a skip *)
CancelAtPromptSkips ==
  /\ chat_history' =
       Append(chat_history,
              Msg("user", SkipFeedback(idx + 1, Len(commands.v), commands.v[idx + 1])))
  /\ Advance(0)
  /\ UNCHANGED << confirm_input, answers, ran >>

(* except EOFError at the confirmation prompt: sys.exit(0) *)
CancelAtPrompt ==
  /\ pc' = "done"
  /\ UNCHANGED << chat_history, error_retry_count, idx, confirm_input, answers, ran,
                  shown >>

(* the confirmation prompt of command idx: read a line, then run or skip *)
ConfirmCommand ==
  /\ pc = "confirm"
  /\ \E line \in Answers \cup {EOF} :
       IF line = EOF
       THEN /\ event' = "answer_eof"
            /\ CancelAtPrompt
       ELSE /\ confirm_input' = NormalizeAnswer(line)
            /\ answers' = Append(answers, line)
            /\ event' = IF ExecuteOnEnter(confirm_input') THEN "confirmed" ELSE "skipped"
            /\ IF ExecuteOnEnter(confirm_input')
               THEN /\ pc' = "running"
                    /\ ran' = Append(ran, <<idx, commands.v[idx + 1]>>)
                    /\ UNCHANGED << chat_history, error_retry_count, idx, shown >>
               ELSE /\ chat_history' =
                         Append(chat_history,
                                Msg("user", SkipFeedback(idx + 1, Len(commands.v),
                                                         commands.v[idx + 1])))
                    /\ Advance(0)
                    /\ UNCHANGED ran
  /\ UNCHANGED << commands, question, error, command_failed, auto_queries, entry_count,
                  last_raw, last_reply, turns, calls, user_input >>
  /\ UNCHANGED parseVars
  /\ UNCHANGED callVars

(* run_command returned: record the result, then go on or break out *)
CommandFinishes ==
  /\ pc = "running"
  /\ \E returncode \in ReturnCodes :
       /\ event' = IF returncode = 0 THEN "succeeded" ELSE "failed"
       /\ chat_history' =
            Append(chat_history,
                   Msg("user", ExecResult(idx + 1, Len(commands.v), commands.v[idx + 1],
                                          returncode)))
       /\ IF returncode = 0
          THEN /\ Advance(0)
               /\ UNCHANGED command_failed
          ELSE /\ command_failed' = TRUE
               /\ error_retry_count' = AfterFailure(error_retry_count)
               /\ pc' = "head"
               /\ UNCHANGED << idx, shown >>
  /\ UNCHANGED << commands, question, error, confirm_input, answers, ran, auto_queries,
                  entry_count, last_raw, last_reply, turns, calls, user_input >>
  /\ UNCHANGED parseVars
  /\ UNCHANGED callVars

(* Ctrl-C while the session waits: at a prompt, in the model call, in a command *)
KeyboardInterrupt ==
  /\ pc \in {"head", "call", "confirm", "running"}
  /\ pc' = "done"
  /\ event' = "interrupt"
  /\ UNCHANGED << chat_history, error_retry_count, commands, question, error, idx,
                  command_failed, confirm_input, answers, ran, shown, auto_queries,
                  entry_count, last_raw, last_reply, turns, calls, user_input >>
  /\ UNCHANGED parseVars
  /\ UNCHANGED callVars

Next ==
  \/ ReadUserInput
  \/ ErrorRecovery
  \/ ModelCall
  \/ ConfirmCommand
  \/ CommandFinishes
  \/ KeyboardInterrupt

Spec == Init /\ [][Next]_vars

----------------------------------------------------------------------------
(* Properties of the session driver, checked under Spec *)

Blank(line) == \A k \in 1..Len(line) : line[k] = WS
Last(q) == q[Len(q)]

(* a step of ConfirmCommand in which a line was read into the batch's answers *)
AnswerRead == pc = "confirm" /\ Len(answers') = Len(answers) + 1

(* a step that starts run_command *)
RunStarts == pc' = "running" /\ pc # "running"

(* the run that starts is the run of command idx of the batch parsed from the
   last reply: presented last, not run before, later than every earlier run *)
RunOfPresentedCommand ==
  /\ pc = "confirm"
  /\ idx' = idx
  /\ Len(answers') = idx + 1
  /\ Last(shown) = idx
  /\ parse_ollama_json(last_raw).commands.t = "list"
  /\ idx + 1 <= Len(parse_ollama_json(last_raw).commands.v)
  /\ ran' = Append(ran, <<idx, parse_ollama_json(last_raw).commands.v[idx + 1]>>)
  /\ \A k \in 1..Len(ran) : ran[k][1] < idx

(* C1, as stated: every run of a command is immediately preceded by an
   empty-input answer at the confirmation prompt of that command of the batch
   of the last parsed reply, and commands are run in list order, each at most
   once. *)
C1_RunOnlyAfterEmptyAnswer ==
  [][RunStarts => (AnswerRead /\ Last(answers') = <<>> /\ RunOfPresentedCommand)]_vars

(* C1, amended: every run of a command is immediately preceded by an answer
   that is empty or all blanks at the confirmation prompt of that command of
   the batch of the last parsed reply, and commands are run in list order, each
   at most once. *)
C1_RunOnlyAfterBlankAnswer ==
  [][RunStarts => (AnswerRead /\ Blank(Last(answers')) /\ RunOfPresentedCommand)]_vars

(* the second command of a batch runs after the first one was run *)
C1_Witness == pc = "running" /\ idx = 1 /\ Len(ran) = 2

(* C2: within one turn, at most MAX_ERROR_RETRY automatic model re-queries
   are made after a command failed, before the main prompt reads again. *)
C2_AtMostCapRequeries == auto_queries <= MAX_ERROR_RETRY

(* the answers read so far at the prompts of the batch *)
BatchAnswered == pc \in {"confirm", "running", "head"} /\ Len(answers) > 0

(* what holds of a batch all of whose commands were skipped so far *)
NothingRunAllPresented ==
  /\ ran = <<>>
  /\ pc # "running"
  /\ shown = [k \in 1..Len(shown) |-> k - 1]
  /\ pc = "head" =>
       /\ Len(answers) = Len(commands.v)
       /\ Len(shown) = Len(commands.v)
       /\ error_retry_count = 0
       /\ ~ENABLED ErrorRecovery

(* C3, as stated: if every answer at the prompts of a batch is other than the
   empty input, no command of the batch is run, every command is presented in
   order, and after the batch the counter is 0 and the main prompt reads next. *)
C3_NonEmptyAnswersRunNothing ==
  (BatchAnswered /\ \A k \in 1..Len(answers) : answers[k] # <<>>)
     => NothingRunAllPresented

(* C3, amended: if every answer at the prompts of a batch is other than empty
   or all blanks, no command of the batch is run, every command is presented
   in order, and after the batch the counter is 0 and the main prompt reads
   next, also when the counter was above 0 when the batch was proposed. *)
C3_SkippedBatchRunsNothing ==
  (BatchAnswered /\ \A k \in 1..Len(answers) : ~Blank(answers[k]))
     => NothingRunAllPresented

(* a batch proposed during error recovery, all skipped *)
C3_Witness ==
  /\ pc = "head"
  /\ entry_count > 0
  /\ Len(answers) = 2
  /\ \A k \in 1..Len(answers) : ~Blank(answers[k])
  /\ error_retry_count = 0

(* C4: every reply text call_ollama returns is appended to the conversation as
   one assistant message by the step that obtained it, before the next prompt
   or model query: whether it parses, fails to decode, fails validation or is
   the empty string. *)
C4_ReplyAlwaysRecorded ==
  [][(calls' = calls + 1 /\ last_raw'.t = "str") =>
       /\ Len(chat_history') > Len(chat_history)
       /\ SubSeq(chat_history', 1, Len(chat_history)) = chat_history
       /\ chat_history'[Len(chat_history) + 1] = Msg("assistant", last_raw')
       /\ \A k \in (Len(chat_history) + 2)..Len(chat_history') :
            chat_history'[k].role = "user"
       /\ pc' \in {"head", "confirm"}]_vars

(* the empty string was the reply, and it is the last message *)
C4_Witness ==
  /\ pc = "head"
  /\ calls > 0
  /\ last_raw = PyStr(<<>>)
  /\ Last(chat_history) = Msg("assistant", PyStr(<<>>))

(* the commands member of a reply is absent, null, a number, a string or an
   object *)
CommandsRejectable(o) ==
  /\ o.t = "obj"
  /\ \A i \in 1..Len(o.v) :
       o.v[i][1] = <<"commands">> => o.v[i][2].t \in {"none", "num", "str", "obj"}

(* C8: a reply whose commands value is absent, null, a number, a string or an
   object is rejected: commands is None, the error is a non-empty text, and the
   session presents and runs no command for it. *)
C8_NonListCommandsRejected ==
  (calls > 0 /\ CommandsRejectable(last_reply)) =>
     /\ commands = PyNone
     /\ error.t = "str"
     /\ Len(error.v) > 0
     /\ pc \notin {"confirm", "running"}
     /\ ran = <<>>
     /\ shown = <<>>

(* the reply with a number for commands was handled *)
C8_Witness ==
  /\ pc = "head"
  /\ last_reply = PyDict(<< <<(<<"commands">>), PyNum(1)>> >>)
  /\ Last(chat_history) = Msg("assistant", last_raw)

(* what a skip does: one user message naming the command, its 1-based position
   and the batch total, then the next command of the batch *)
SkipEffect ==
  LET n == Len(commands.v)
      m == Last(chat_history')
  IN /\ Len(chat_history') = Len(chat_history) + 1
     /\ SubSeq(chat_history', 1, Len(chat_history)) = chat_history
     /\ m.role = "user"
     /\ m.content.t = "str"
     /\ m.content.v[1] = "User skipped command"
     /\ m.content.v[2] = IdxSym(idx + 1)
     /\ m.content.v[4] = IdxSym(n)
     /\ SubSeq(m.content.v, 6, Len(m.content.v)) = commands.v[idx + 1].v
     /\ ran' = ran
     /\ IF idx + 1 < n
        THEN pc' = "confirm" /\ idx' = idx + 1 /\ Last(shown') = idx + 1
        ELSE pc' = "head"

(* C10, as stated: at a confirmation prompt the command is run if and only if
   the answer is the empty input; any other answer skips it. *)
C10_RunIffEmptyAnswer ==
  [][AnswerRead =>
       /\ (pc' = "running") <=> (Last(answers') = <<>>)
       /\ (Last(answers') # <<>>) => SkipEffect]_vars

(* C10, amended: at a confirmation prompt the command is run if and only if
   the answer is empty or all blanks; any other answer skips the command,
   appends one user message naming it with its 1-based position and the batch
   total, and goes on to the next command of the batch. *)
C10_RunIffBlankAnswer ==
  [][AnswerRead =>
       /\ (pc' = "running") <=> Blank(Last(answers'))
       /\ ~Blank(Last(answers')) => SkipEffect]_vars

(* the first command was skipped and the second one is at its prompt *)
C10_Witness ==
  /\ pc = "confirm"
  /\ idx = 1
  /\ answers = << <<"Y">> >>
  /\ Last(chat_history).role = "user"
  /\ Last(chat_history).content.v[1] = "User skipped command"

----------------------------------------------------------------------------
(* Properties of the model client, checked under CallSpec *)

(* the body is the documented envelope, or the tolerated reply-shaped body *)
WellFormedEnvelope(data) ==
  /\ data.t = "obj"
  /\ \/ /\ DictHas(data.v, <<"message">>)
        /\ DictGet(data.v, <<"message">>, PyNone).t = "obj"
        /\ DictHas(DictGet(data.v, <<"message">>, PyNone).v, <<"content">>)
     \/ DictHas(data.v, <<"commands">>)

(* C5: call_ollama never raises, and returns None for every transport failure,
   timeout, non-2xx status, undecodable body and malformed envelope. *)
C5_CallNeverRaises ==
  (h_pc \in {"returned", "raised"}) =>
     /\ h_pc = "returned"
     /\ (h_resp.kind # "json" \/ ~WellFormedEnvelope(h_resp.data)) => h_out = PyNone

----------------------------------------------------------------------------
(* Properties of the response interpreter, checked under ParseSpec *)

Parsed == p_pc \in {"parsed", "compared"}
ReplyCommands == DictGet(p_obj.v, <<"commands">>, PyNone)

(* C6: for a well-formed JSON object reply whose commands value is a non-empty
   list of strings, the interpreter returns exactly that list and no error. *)
C6_ExactCommandList ==
  (/\ Parsed
   /\ p_wrap = "bare"
   /\ ReplyCommands.t = "list"
   /\ Len(ReplyCommands.v) > 0
   /\ NonStrings(ReplyCommands.v) = {})
     => /\ p_out.exc = "none"
        /\ p_out.commands = ReplyCommands
        /\ p_out.error = PyNone

IsDecodeError(e) ==
  e.t = "str" /\ Len(e.v) > 0 /\ e.v[1] = "Failed to decode JSON response"

(* two results agree, up to the raw text a decode error echoes *)
SameResult(x, y) ==
  /\ x.exc = y.exc
  /\ x.commands = y.commands
  /\ x.reason = y.reason
  /\ x.explanation = y.explanation
  /\ x.question = y.question
  /\ x.error = y.error \/ (IsDecodeError(x.error) /\ IsDecodeError(y.error))

(* C7: a JSON object wrapped in a json-marked fenced block, with or without
   prose around it, parses to the same result as the object unwrapped. *)
C7_FencedSameAsBare ==
  (p_pc = "compared" /\ p_wrap \in FencedWrappers) => SameResult(p_out, p_base)

(* The interpreter's part of C8 on every reply of the family, whatever its
   wrapping and its other members. *)
C8_InterpreterRejects ==
  (Parsed /\ CommandsRejectable(p_obj)) =>
     /\ p_out.exc = "none"
     /\ p_out.commands = PyNone
     /\ p_out.error.t = "str"
     /\ Len(p_out.error.v) > 0

(* C9: a commands list with a non-string element is rejected as a whole, and
   the error names the index of its first non-string element. *)
C9_FirstNonStringNamed ==
  (/\ Parsed
   /\ p_obj.t = "obj"
   /\ ReplyCommands.t = "list"
   /\ NonStrings(ReplyCommands.v) # {})
     => /\ p_out.exc = "none"
        /\ p_out.commands = PyNone
        /\ p_out.error.t = "str"
        /\ Len(p_out.error.v) > 1
        /\ p_out.error.v[1] = "Item"
        /\ p_out.error.v[2] = IdxSym(Min(NonStrings(ReplyCommands.v)) - 1)

-----------------------------------------------------------------------------
(* The main prompt and the ways out of the session *)

(* a step that read a line at the main prompt *)
LineRead == pc = "head" /\ event' = "input"

(* the session is over: a step from pc = "done" would be a step after the end *)
Ended == pc = "done"

(* C11: an empty line at the main prompt leaves the conversation and the
   counter as they are and is followed by the prompt again, with no model call;
   exit or quit in any letter case ends the session, nothing being appended
   and no model call made, and nothing happens after the end. *)
C11_EmptyIgnoredExitEnds ==
  [][/\ ~Ended
     /\ (LineRead /\ user_input' = <<>>) =>
          /\ chat_history' = chat_history
          /\ error_retry_count' = error_retry_count
          /\ calls' = calls
          /\ pc' = "head"
     /\ (LineRead /\ user_input' \in {<<"exit">>, <<"Exit">>, <<"quit">>, <<"QUIT">>}) =>
          /\ chat_history' = chat_history
          /\ calls' = calls
          /\ pc' = "done"]_vars

C11_Witness ==
  /\ pc = "done"
  /\ event = "input"
  /\ user_input = <<"QUIT">>
  /\ Len(chat_history) > 1

(* C12: end of input at either prompt, or an interruption, ends the session:
   the step makes no model call, runs no command and appends nothing, and no
   step follows it, so the commands left in the batch are never run. *)
C12_EndOfInputTerminates ==
  [][/\ ~Ended
     /\ event' \in {"eof", "answer_eof", "interrupt"} =>
          /\ pc' = "done"
          /\ chat_history' = chat_history
          /\ calls' = calls
          /\ ran' = ran
          /\ shown' = shown]_vars

C12_Witness ==
  /\ pc = "done"
  /\ event = "answer_eof"
  /\ Len(commands.v) = 2
  /\ idx = 0
  /\ ran = <<>>

-----------------------------------------------------------------------------
(* Failed commands and failed model calls *)

(* a step in which run_command returned a non-zero exit code *)
RunFailed == pc = "running" /\ event' = "failed"

(* C13: a failed command ends the batch: the commands after it are neither
   presented nor run. While the incremented counter is within the cap, the
   counter keeps the incremented value and the loop head goes on to the model
   call without reading a line; when it exceeds the cap, the counter is 0 and
   the loop head reads a line. *)
C13_FailureEndsBatch ==
  [][/\ RunFailed =>
          /\ pc' = "head"
          /\ shown' = shown
          /\ ran' = ran
          /\ error_retry_count' =
               IF error_retry_count + 1 <= MAX_ERROR_RETRY
               THEN error_retry_count + 1 ELSE 0
     /\ pc = "head" =>
          /\ shown' = shown
          /\ ran' = ran
          /\ chat_history' # chat_history => event' = "input"
          /\ event' \in (IF error_retry_count # 0 THEN {"requery", "interrupt"}
                         ELSE {"input", "eof", "interrupt"})
     /\ event' = "requery" =>
          /\ pc' = "call"
          /\ chat_history' = chat_history
          /\ user_input' = user_input]_vars

C13_Witness ==
  /\ pc = "head"
  /\ event = "failed"
  /\ entry_count = MAX_ERROR_RETRY
  /\ error_retry_count = 0
  /\ Len(commands.v) = 2
  /\ idx = 0

(* C14: when call_ollama returns None, the conversation is what it was before
   the call, the counter is 0 and the loop head follows, where a line is read;
   the same after an automatic re-query. *)
C14_FailedCallKeepsHistory ==
  [][(pc = "call" /\ event' = "call" /\ pc' # "crashed" /\ last_raw' = PyNone) =>
       /\ chat_history' = chat_history
       /\ error_retry_count' = 0
       /\ pc' = "head"
       /\ ran' = <<>>
       /\ shown' = <<>>]_vars

C14_Witness ==
  /\ pc = "head"
  /\ event = "call"
  /\ last_raw = PyNone
  /\ entry_count > 0
  /\ error_retry_count = 0
  /\ Last(chat_history).role = "user"

-----------------------------------------------------------------------------
(* The conversation *)

IsPrefix(s, t) == Len(s) <= Len(t) /\ SubSeq(t, 1, Len(s)) = s

(* the messages a step appended *)
Appended == SubSeq(chat_history', Len(chat_history) + 1, Len(chat_history'))

(* C15: the conversation is append-only. Every step leaves it as it is or
   extends it at the end, by one message for each append the code makes: one
   message, or the assistant's reply followed by the note that no commands
   were proposed. No message is removed, moved or changed, and the first
   message is always the system prompt. *)
C15_AppendOnly ==
  [][/\ IsPrefix(chat_history, chat_history')
     /\ Len(chat_history') <= Len(chat_history) + 2
     /\ Len(chat_history') = Len(chat_history) + 2 =>
          /\ Appended[1].role = "assistant"
          /\ Appended[2] = Msg("user", NoCommandFeedback)
     /\ chat_history[1] = Msg("system", SystemPrompt)
     /\ chat_history'[1] = Msg("system", SystemPrompt)]_vars

C15_Witness ==
  /\ Len(chat_history) >= 7
  /\ \E k \in 2..Len(chat_history) : chat_history[k].role = "assistant"
  /\ Last(chat_history).role = "user"

-----------------------------------------------------------------------------
(* Feedback of run commands *)

ExecHead == "User confirmed and executed command"

(* msg is the feedback of a run of command cmd that ended with exit code sym *)
IsExecFeedback(msg, cmd, sym) ==
  /\ msg.role = "user"
  /\ msg.content.t = "str"
  /\ LET v == msg.content.v
         n == Len(cmd.v)
     IN /\ Len(v) = n + 9
        /\ v[1] = ExecHead
        /\ SubSeq(v, 6, n + 5) = cmd.v
        /\ SubSeq(v, n + 6, n + 9) = <<"Exit Code:", sym, "STDOUT:", "STDERR:">>

(* the position of the last assistant message, 0 when there is none *)
LastAssistant ==
  LET A == {k \in 1..Len(chat_history) : chat_history[k].role = "assistant"}
  IN IF A = {} THEN 0 ELSE CHOOSE k \in A : \A j \in A : j <= k

(* the feedback messages of runs recorded since the last reply *)
ExecMessages ==
  {k \in (LastAssistant + 1)..Len(chat_history) :
     /\ chat_history[k].content.t = "str"
     /\ Len(chat_history[k].content.v) > 0
     /\ chat_history[k].content.v[1] = ExecHead}

(* the batch of the last reply is being worked on, or was just left *)
InBatch ==
  \/ pc \in {"confirm", "running"}
  \/ event \in {"succeeded", "failed", "skipped", "requery"}

(* at a prompt and at a re-query every run of the batch has its feedback;
   while a command runs, every run but that one *)
FeedbackPerRun ==
  /\ InBatch =>
       Cardinality(ExecMessages) = Len(ran) - (IF pc = "running" THEN 1 ELSE 0)
  /\ event = "requery" =>
       /\ pc = "call"
       /\ IsExecFeedback(Last(chat_history), commands.v[idx + 1], "1")

(* C16: a command whose run returned appends exactly one user message naming
   the command, its exit code and its output, in the step in which the run
   returns: so it is in the conversation at the next confirmation prompt, at
   the next main prompt and at a re-query, after a success, after a failure
   within the cap and after a failure that exceeds it; the conversation a
   re-query sends ends with the feedback of the failed command. *)
C16_FeedbackBeforeNextAction ==
  [][/\ FeedbackPerRun
     /\ FeedbackPerRun'
     /\ pc = "running" /\ event' \in {"succeeded", "failed"} =>
          /\ chat_history' = Append(chat_history, Last(chat_history'))
          /\ IsExecFeedback(Last(chat_history'), commands.v[idx + 1],
                            IF event' = "succeeded" THEN "0" ELSE "1")
          /\ Last(ran) = <<idx, commands.v[idx + 1]>>
          /\ pc' \in {"confirm", "head"}
     /\ pc = "running" => event' \in {"succeeded", "failed", "interrupt"}]_vars

C16_Witness ==
  /\ pc = "call"
  /\ event = "requery"
  /\ error_retry_count = MAX_ERROR_RETRY
  /\ IsExecFeedback(Last(chat_history), commands.v[idx + 1], "1")

-----------------------------------------------------------------------------
(* Replies without commands to run *)

(* a step of ModelCall in which call_ollama returned a text and
   parse_ollama_json returned a commands list for it: a reply that parsed *)
ParsedReplyTaken ==
  /\ pc = "call"
  /\ event' = "call"
  /\ pc' # "crashed"
  /\ last_raw'.t = "str"
  /\ commands'.t = "list"

(* C17: a parsed reply with a non-empty question appends the assistant reply
   and nothing else, sets the counter to 0 and leads to the main prompt; none
   of its commands is presented or run, also when its list is not empty. *)
C17_QuestionSuppressesCommands ==
  [][(/\ ParsedReplyTaken
      /\ question'.t = "str"
      /\ Len(question'.v) > 0) =>
       /\ chat_history' = Append(chat_history, Msg("assistant", last_raw'))
       /\ error_retry_count' = 0
       /\ pc' = "head"
       /\ shown' = <<>>
       /\ ran' = <<>>]_vars

C17_Witness ==
  /\ pc = "head"
  /\ event = "call"
  /\ question = PyStr(<<"b">>)
  /\ commands = PyList(<<PyStr(<<"a">>)>>)
  /\ entry_count > 0
  /\ error_retry_count = 0
  /\ Last(chat_history).role = "assistant"

(* C18: a parsed reply with an empty commands list and no question appends the
   assistant reply and after it exactly one user message saying that no
   commands were proposed, sets the counter to 0, runs no command and leads to
   the main prompt. *)
C18_EmptyListNoted ==
  [][(/\ ParsedReplyTaken
      /\ commands'.v = <<>>
      /\ Falsy(question')) =>
       /\ chat_history' =
            chat_history \o <<Msg("assistant", last_raw'), Msg("user", NoCommandFeedback)>>
       /\ error_retry_count' = 0
       /\ pc' = "head"
       /\ shown' = <<>>
       /\ ran' = <<>>]_vars

C18_Witness ==
  /\ pc = "head"
  /\ event = "call"
  /\ commands = PyList(<<>>)
  /\ Last(chat_history) = Msg("user", NoCommandFeedback)
  /\ entry_count > 0
  /\ error_retry_count = 0

-----------------------------------------------------------------------------
(* The shape of the interpreter's result *)

(* C19: the interpreter returns a result or a failure, never both: when the
   error is not None, commands, reason, explanation and question are all
   None; when commands is not None, the error is None. *)
C19_ResultOrFailure ==
  (Parsed /\ p_out.exc = "none") =>
     /\ p_out.error # PyNone =>
          /\ p_out.commands = PyNone
          /\ p_out.reason = PyNone
          /\ p_out.explanation = PyNone
          /\ p_out.question = PyNone
     /\ p_out.commands # PyNone => p_out.error = PyNone

-----------------------------------------------------------------------------
(* The retry counter *)

CounterInRange == error_retry_count \in 0..MAX_ERROR_RETRY

(* C20: the counter stays within 0..MAX_ERROR_RETRY; it is 0 after a
   successful command, a skip, a reply that leads back to the loop head
   (a question, an empty list, a reply that does not parse), a failed model
   call and a failure that exceeds the cap; the loop head reads a line exactly
   when the counter is 0 and goes to the model call without reading exactly
   when it is between 1 and MAX_ERROR_RETRY. *)
C20_CounterDrivesLoop ==
  [][/\ CounterInRange
     /\ CounterInRange'
     /\ event' \in {"succeeded", "skipped"} => error_retry_count' = 0
     /\ (event' = "call" /\ pc' = "head") => error_retry_count' = 0
     /\ (event' = "failed" /\ error_retry_count = MAX_ERROR_RETRY) =>
          error_retry_count' = 0
     /\ (event' = "failed" /\ error_retry_count < MAX_ERROR_RETRY) =>
          error_retry_count' \in 1..MAX_ERROR_RETRY
     /\ event' \in {"input", "eof"} => (pc = "head" /\ error_retry_count = 0)
     /\ event' = "requery" =>
          /\ pc = "head"
          /\ error_retry_count \in 1..MAX_ERROR_RETRY
          /\ user_input' = user_input
          /\ turns' = turns
     /\ (pc = "head" /\ error_retry_count = 0) =>
          event' \in {"input", "eof", "interrupt"}
     /\ (pc = "head" /\ error_retry_count # 0) =>
          event' \in {"requery", "interrupt"}]_vars

C20_Witness ==
  /\ pc = "head"
  /\ event = "failed"
  /\ error_retry_count = MAX_ERROR_RETRY
  /\ ENABLED ErrorRecovery
  /\ ~ENABLED ReadUserInput

-----------------------------------------------------------------------------
(* The conversation the model is sent *)

(* two assistant messages next to each other *)
AdjacentAssistants ==
  \E k \in 1..(Len(chat_history) - 1) :
     chat_history[k].role = "assistant" /\ chat_history[k + 1].role = "assistant"

(* two user messages next to each other *)
AdjacentUsers ==
  \E k \in 1..(Len(chat_history) - 1) :
     chat_history[k].role = "user" /\ chat_history[k + 1].role = "user"

(* the conversation has a message after the system prompt, the last one
   written by the user side *)
EndsWithUser == Len(chat_history) > 1 /\ Last(chat_history).role = "user"

(* C21: whenever the model is queried, after a line of the user or on an
   automatic re-query, the conversation has more than the system prompt and
   ends with a user message; and no two assistant messages are ever next to
   each other, whatever the inputs, replies, failures and outcomes were. *)
C21_QueryEndsWithUser ==
  /\ pc = "call" => EndsWithUser
  /\ (pc = "head" /\ error_retry_count # 0) => EndsWithUser
  /\ ~AdjacentAssistants

C21_Witness ==
  /\ pc = "call"
  /\ event = "requery"
  /\ calls >= 2
  /\ AdjacentUsers
  /\ \E k \in 2..Len(chat_history) : chat_history[k].role = "assistant"

====
